---- MODULE Spec2Model ----
(***************************************************************************)
(* A model of cc-worker (src/cc-worker/scripts/cc_worker.py): the command  *)
(* builder, the process runner and result interpreter (_run), the session  *)
(* store (one JSON file per session) and the command-line drivers.         *)
(*                                                                         *)
(* Python values are modelled as follows.                                  *)
(*   str            a TLA+ string, handled character by character          *)
(*   None / x       an optional argument is <<>> (None) or <<x>>           *)
(*   JSON values    a record with one field, named by the Python type:     *)
(*                  [str |-> s], [int |-> n], [bool |-> b], [null |-> TRUE],*)
(*                  [list |-> xs], [dict |-> d]                            *)
(*   dict           a function from its keys (strings) to its values       *)
(*   list           a sequence                                             *)
(*   a call         Ret(x) when it returns x, Raise(e) when it raises e    *)
(* The backtick cannot be written in a TLA+ string: BT stands for it.      *)
(***************************************************************************)
EXTENDS Integers, Sequences, FiniteSets, TLC

VARIABLES
    call,       \* the arguments of the last call of a function (command
                \* builder, _run, text functions, store functions)
    argv,       \* command builder: the argument vector it returned
    proc,       \* process runner: what subprocess.run did (outcome, stdout, ...)
    res,        \* what _run returned (or raised) for proc; what the last
                \* function called returned (or raised)
    files,      \* session store: the session directory, file stem -> the
                \* file's text and what json.loads gives for it
    clock,      \* session store: the reading datetime.now() gives
    out,        \* driver: the last command run, what it printed, its exit status
    hist,       \* the runs made so far: n of exec and continue (in the
                \* concurrent drivers, the writes; on any directory, the calls
                \* of session_update), q of sessions, status, delete (on any
                \* directory, the calls of session_list)
    pc,         \* each running invocation's position in its driver
    loc         \* each running invocation's local variables; on any directory,
                \* the order in which glob enumerates it

cmdVars   == <<call, argv>>
runVars   == <<proc, res>>
storeVars == <<files, clock, out, hist>>
concVars  == <<pc, loc>>
vars      == <<call, argv, proc, res, files, clock, out, hist, pc, loc>>

-----------------------------------------------------------------------------
(* Python built-ins used by the program                                     *)

None == <<>>
Some(x) == <<x>>
IsNone(o) == o = <<>>

\* s[i] (1-based)
Char(s, i) == SubSeq(s, i, i)

\* s[i:] (1-based, inclusive)
From(s, i) == SubSeq(s, i, Len(s))

\* s.startswith(p)
StartsWith(s, p) == Len(p) <= Len(s) /\ SubSeq(s, 1, Len(p)) = p

\* s.endswith(p)
EndsWith(s, p) == Len(p) <= Len(s) /\ SubSeq(s, Len(s) - Len(p) + 1, Len(s)) = p

\* s starts with p at position i
At(s, i, p) == i + Len(p) - 1 <= Len(s) /\ SubSeq(s, i, i + Len(p) - 1) = p

RECURSIVE Join(_, _)
\* sep.join(xs)
Join(sep, xs) ==
    IF Len(xs) = 0 THEN ""
    ELSE IF Len(xs) = 1 THEN xs[1]
    ELSE xs[1] \o sep \o Join(sep, Tail(xs))

Digit(d) == Char("0123456789", d + 1)

RECURSIVE NatToStr(_)
NatToStr(n) == IF n < 10 THEN Digit(n) ELSE NatToStr(n \div 10) \o Digit(n % 10)

\* str(n) for an int
IntToStr(n) == IF n < 0 THEN "-" \o NatToStr(0 - n) ELSE NatToStr(n)

\* d.get(k, default)
Get(d, k, default) == IF k \in DOMAIN d THEN d[k] ELSE default

\* x = e followed by code that reads x: F(x)
Bind(x, F(_)) == F(x)

\* min(a, b)
Min(a, b) == IF a < b THEN a ELSE b

RECURSIVE FirstIn(_, _, _)
\* The least k in lo..hi with P(k), 0 when there is none (searched a stretch
\* of 64 positions at a time, so that a long string is scanned without deep
\* recursion)
FirstIn(P(_), lo, hi) ==
    IF lo > hi THEN 0
    ELSE IF \E k \in lo..Min(lo + 63, hi) : P(k)
    THEN CHOOSE k \in lo..Min(lo + 63, hi) : P(k) /\ \A j \in lo..(k - 1) : ~P(j)
    ELSE FirstIn(P, lo + 64, hi)

\* s.find(p, i): the first position >= i where p occurs, 0 when there is none
FindFrom(s, i, p) == FirstIn(LAMBDA k : At(s, k, p), i, Len(s) - Len(p) + 1)

-----------------------------------------------------------------------------
(* Command builder                                                          *)

DEFAULT_ALLOWED_TOOLS ==
    <<"Read", "Grep", "Glob", "Task", "WebSearch",
      "mcp__contextweaver__codebase-retrieval">>

DISALLOWED_TOOLS == <<"Edit", "Write", "Bash", "NotebookEdit">>

WORKER_PROMPT_FILE == "scripts/worker_system.md"

DEFAULT_MAX_TURNS == 15

\* What _find_claude_bin can return: a resolved claude.cmd (Windows), a resolved
\* claude, one of the well-known locations, or the bare name.
ClaudeBins == {"C:/npm/claude.cmd", "/usr/local/bin/claude", "claude"}

\* A mutant of _build_exec_cmd: the caller's override is subtracted from the
\* disallowed list (allow wins).
Mut_build_exec_cmd(bin, task, model, max_turns, allowed_tools) ==
    LET tools == IF IsNone(allowed_tools) \/ allowed_tools[1] = <<>>
                 THEN DEFAULT_ALLOWED_TOOLS ELSE allowed_tools[1]
        cmd == <<bin, "-p", task, "--output-format", "json",
                 "--max-turns", IntToStr(max_turns),
                 "--append-system-prompt-file", WORKER_PROMPT_FILE,
                 "--allowedTools", Join(",", tools),
                 "--disallowedTools",
                 Join(",", SelectSeq(DISALLOWED_TOOLS,
                                     LAMBDA x : \A i \in 1..Len(tools) : tools[i] # x))>>
    IN  IF ~IsNone(model) /\ model[1] # ""
        THEN cmd \o <<"--model", model[1]>> ELSE cmd

\* _build_exec_cmd(task, model=, max_turns=, allowed_tools=); bin is what
\* _find_claude_bin() returned.
_build_exec_cmd(bin, task, model, max_turns, allowed_tools) ==
    LET tools == IF IsNone(allowed_tools) \/ allowed_tools[1] = <<>>
                 THEN DEFAULT_ALLOWED_TOOLS ELSE allowed_tools[1]
        cmd == <<bin, "-p", task, "--output-format", "json",
                 "--max-turns", IntToStr(max_turns),
                 "--append-system-prompt-file", WORKER_PROMPT_FILE,
                 "--allowedTools", Join(",", tools),
                 "--disallowedTools", Join(",", DISALLOWED_TOOLS)>>
    IN  IF ~IsNone(model) /\ model[1] # ""
        THEN cmd \o <<"--model", model[1]>> ELSE cmd

\* _build_continue_cmd(session_id, message, model=, max_turns=)
_build_continue_cmd(bin, session_id, message, model, max_turns) ==
    LET cmd == <<bin, "-p", message, "--resume", session_id,
                 "--output-format", "json",
                 "--max-turns", IntToStr(max_turns),
                 "--disallowedTools", Join(",", DISALLOWED_TOOLS)>>
    IN  IF ~IsNone(model) /\ model[1] # ""
        THEN cmd \o <<"--model", model[1]>> ELSE cmd

-----------------------------------------------------------------------------
(* JSON: the values json.loads builds, json.loads and json.dumps            *)

\* A value is a record with one field, named after its Python type: values of
\* different types differ in the field's name, and only values of one type
\* are ever compared.
JS(s) == [str |-> s]
JN(n) == [int |-> n]
JB(b) == [bool |-> b]
JNull == [null |-> TRUE]
JL(xs) == [list |-> xs]
JD(d) == [dict |-> d]

\* type(j)
T(j) == CHOOSE k \in DOMAIN j : TRUE

\* The backtick, which a TLA+ string cannot hold
BT == "~"
FENCE == BT \o BT \o BT

\* d[k] = v on a dict
Put(d, k, v) == [x \in (DOMAIN d) \cup {k} |-> IF x = k THEN v ELSE d[x]]

\* bool(v): Python's truth value of a JSON value
Truthy(j) ==
    CASE T(j) = "str"  -> j.str # ""
      [] T(j) = "int"  -> j.int # 0
      [] T(j) = "bool" -> j.bool
      [] T(j) = "null" -> FALSE
      [] T(j) = "list" -> Len(j.list) > 0
      [] T(j) = "dict" -> DOMAIN j.dict # {}

Whitespace == {" ", "\t", "\n", "\r"}

RECURSIVE SkipWS(_, _)
SkipWS(s, i) ==
    IF i <= Len(s) /\ Char(s, i) \in Whitespace THEN SkipWS(s, i + 1) ELSE i

\* A parse step's result: the value and the position after it, or a failure
\* (json.JSONDecodeError)
PFail == [ok |-> FALSE, v |-> JNull, next |-> 0]
POk(v, n) == [ok |-> TRUE, v |-> v, next |-> n]

\* The character an escape \e stands for; "" marks an invalid escape
Unescape(e) ==
    CASE e = "\"" -> "\""
      [] e = "\\" -> "\\"
      [] e = "/"  -> "/"
      [] e = "n"  -> "\n"
      [] e = "t"  -> "\t"
      [] e = "r"  -> "\r"
      [] OTHER    -> ""

RECURSIVE ScanChunks(_, _, _)
\* The loop of json.decoder.py_scanstring (strict): the text up to the next
\* quote, backslash or control character is appended to acc; a quote ends the
\* string, a backslash starts an escape, a control character is an error.
ScanChunks(s, i, acc) ==
    Bind(FirstIn(LAMBDA k : Char(s, k) \in {"\"", "\\", "\n", "\t", "\r"}, i, Len(s)),
         LAMBDA e :
      IF e = 0 THEN PFail
      ELSE IF Char(s, e) = "\"" THEN POk(JS(acc \o SubSeq(s, i, e - 1)), e + 1)
      ELSE IF Char(s, e) # "\\" THEN PFail
      ELSE IF e = Len(s) \/ Unescape(Char(s, e + 1)) = "" THEN PFail
      ELSE ScanChunks(s, e + 2,
                      acc \o SubSeq(s, i, e - 1) \o Unescape(Char(s, e + 1))))

\* json.decoder.py_scanstring: s[i] is the first character after the opening
\* quote
ScanString(s, i) == ScanChunks(s, i, "")

IsDigit(c) == c \in {"0", "1", "2", "3", "4", "5", "6", "7", "8", "9"}
DigitVal(c) == CHOOSE d \in 0..9 : Digit(d) = c

RECURSIVE ScanDigits(_, _, _)
ScanDigits(s, i, n) ==
    IF i <= Len(s) /\ IsDigit(Char(s, i))
    THEN ScanDigits(s, i + 1, 10 * n + DigitVal(Char(s, i)))
    ELSE [n |-> n, next |-> i]

\* json.scanner NUMBER_RE, integer part: -?(0|[1-9][0-9]*)
ScanNumber(s, i) ==
    Bind(IF At(s, i, "-") THEN i + 1 ELSE i, LAMBDA j :
      IF j > Len(s) \/ ~IsDigit(Char(s, j)) THEN PFail
      ELSE Bind(IF Char(s, j) = "0" THEN [n |-> 0, next |-> j + 1]
                ELSE ScanDigits(s, j, 0), LAMBDA d :
             POk(JN(IF At(s, i, "-") THEN 0 - d.n ELSE d.n), d.next)))

RECURSIVE ScanValue(_, _)
RECURSIVE ScanArray(_, _)
RECURSIVE ScanObject(_, _)
RECURSIVE ObjectMember(_, _, _)
RECURSIVE ArrayAfterValue(_, _, _)
RECURSIVE ArrayAfterItem(_, _, _)
RECURSIVE ObjectAfterKey(_, _, _)
RECURSIVE ObjectAfterColon(_, _, _, _)
RECURSIVE ObjectAfterValue(_, _, _, _)
RECURSIVE ObjectAfterMember(_, _, _)

\* json.scanner.py_make_scanner._scan_once at s[i]
ScanValue(s, i) ==
    CASE i > Len(s)        -> PFail
      [] At(s, i, "\"")    -> ScanString(s, i + 1)
      [] At(s, i, "{")     -> ScanObject(s, SkipWS(s, i + 1))
      [] At(s, i, "[")     -> ScanArray(s, SkipWS(s, i + 1))
      [] At(s, i, "null")  -> POk(JNull, i + 4)
      [] At(s, i, "true")  -> POk(JB(TRUE), i + 4)
      [] At(s, i, "false") -> POk(JB(FALSE), i + 5)
      [] OTHER             -> ScanNumber(s, i)

\* json.decoder.JSONArray: s[i] starts an element, or closes an empty array
ScanArray(s, i) ==
    IF At(s, i, "]") THEN POk(JL(<<>>), i + 1)
    ELSE ArrayAfterValue(s, <<>>, ScanValue(s, i))

\* JSONArray after an element was scanned with result r
ArrayAfterValue(s, acc, r) ==
    IF ~r.ok THEN PFail
    ELSE ArrayAfterItem(s, Append(acc, r.v), SkipWS(s, r.next))

\* JSONArray at the delimiter s[j] that follows an element
ArrayAfterItem(s, acc, j) ==
    CASE At(s, j, ",") -> ArrayAfterValue(s, acc, ScanValue(s, SkipWS(s, j + 1)))
      [] At(s, j, "]") -> POk(JL(acc), j + 1)
      [] OTHER         -> PFail

\* json.decoder.JSONObject: s[i] follows the opening brace and the whitespace
\* after it
ScanObject(s, i) ==
    IF At(s, i, "}") THEN POk(JD(<<>>), i + 1) ELSE ObjectMember(s, i, <<>>)

\* JSONObject at s[i], which must open a key
ObjectMember(s, i, acc) ==
    IF At(s, i, "\"") THEN ObjectAfterKey(s, acc, ScanString(s, i + 1)) ELSE PFail

\* JSONObject after a key was scanned with result k
ObjectAfterKey(s, acc, k) ==
    IF ~k.ok THEN PFail
    ELSE ObjectAfterColon(s, acc, k.v.str, SkipWS(s, k.next))

\* JSONObject at s[j], which must be the colon after key
ObjectAfterColon(s, acc, key, j) ==
    IF ~At(s, j, ":") THEN PFail
    ELSE ObjectAfterValue(s, acc, key, ScanValue(s, SkipWS(s, j + 1)))

\* JSONObject after key's value was scanned with result r
ObjectAfterValue(s, acc, key, r) ==
    IF ~r.ok THEN PFail
    ELSE ObjectAfterMember(s, Put(acc, key, r.v), SkipWS(s, r.next))

\* JSONObject at the delimiter s[m] that follows a member
ObjectAfterMember(s, acc, m) ==
    CASE At(s, m, ",") -> ObjectMember(s, SkipWS(s, m + 1), acc)
      [] At(s, m, "}") -> POk(JD(acc), m + 1)
      [] OTHER         -> PFail

\* json.loads(s) for a str s: [ok, v]; ok = FALSE is json.JSONDecodeError
Loads(s) ==
    Bind(ScanValue(s, SkipWS(s, 1)), LAMBDA r :
      IF r.ok /\ SkipWS(s, r.next) = Len(s) + 1 THEN r ELSE PFail)

\* The escape json.dumps writes for a character it escapes
Escape(c) ==
    CASE c = "\"" -> "\\\""
      [] c = "\\" -> "\\\\"
      [] c = "\n" -> "\\n"
      [] c = "\t" -> "\\t"
      [] c = "\r" -> "\\r"

RECURSIVE EscapeStr(_)
\* json.encoder.py_encode_basestring's replacements (ensure_ascii=False)
EscapeStr(s) ==
    Bind(FirstIn(LAMBDA k : Char(s, k) \in {"\"", "\\", "\n", "\t", "\r"},
                 1, Len(s)), LAMBDA b :
      IF b = 0 THEN s
      ELSE SubSeq(s, 1, b - 1) \o Escape(Char(s, b)) \o EscapeStr(From(s, b + 1)))

\* The keys the program's dicts hold, in the order the code inserts them; a
\* dict is written in this order.
KeyOrder ==
    <<"session_id", "task", "cwd", "model", "cost_usd", "duration_ms",
      "num_turns", "is_error", "subtype", "created_at", "updated_at", "turns",
      "role", "content", "status", "timestamp", "summary", "analysis",
      "questions", "files_analyzed", "last_status", "last_summary", "result",
      "total_cost_usd", "error", "raw_output", "exit_code", "deleted",
      "sessions", "count">>

RECURSIVE SetToSeq(_)
SetToSeq(S) ==
    IF S = {} THEN <<>>
    ELSE Bind(CHOOSE y \in S : TRUE, LAMBDA x : <<x>> \o SetToSeq(S \ {x}))

\* The keys of d in writing order
Keys(d) ==
    SelectSeq(KeyOrder, LAMBDA k : k \in DOMAIN d)
    \o SetToSeq((DOMAIN d) \ {KeyOrder[i] : i \in 1..Len(KeyOrder)})

RECURSIVE Spaces(_)
Spaces(n) == IF n <= 0 THEN "" ELSE " " \o Spaces(n - 1)

INDENT == 2

RECURSIVE Encode(_, _)
RECURSIVE EncodeItems(_, _, _)
RECURSIVE EncodeMembers(_, _, _)

\* json.encoder._make_iterencode with indent=INDENT: j at nesting level lvl
Encode(j, lvl) ==
    CASE T(j) = "str"  -> "\"" \o EscapeStr(j.str) \o "\""
      [] T(j) = "int"  -> IntToStr(j.int)
      [] T(j) = "bool" -> IF j.bool THEN "true" ELSE "false"
      [] T(j) = "null" -> "null"
      [] T(j) = "list" ->
            IF Len(j.list) = 0 THEN "[]"
            ELSE "[\n" \o EncodeItems(j.list, lvl + 1, 1)
                 \o "\n" \o Spaces(INDENT * lvl) \o "]"
      [] T(j) = "dict" ->
            IF DOMAIN j.dict = {} THEN "{}"
            ELSE "{\n" \o EncodeMembers(j.dict, Keys(j.dict), lvl + 1)
                 \o "\n" \o Spaces(INDENT * lvl) \o "}"

EncodeItems(xs, lvl, i) ==
    Spaces(INDENT * lvl) \o Encode(xs[i], lvl)
    \o (IF i < Len(xs) THEN ",\n" \o EncodeItems(xs, lvl, i + 1) ELSE "")

EncodeMembers(d, ks, lvl) ==
    Spaces(INDENT * lvl) \o "\"" \o EscapeStr(ks[1]) \o "\": "
    \o Encode(d[ks[1]], lvl)
    \o (IF Len(ks) > 1 THEN ",\n" \o EncodeMembers(d, Tail(ks), lvl) ELSE "")

\* json.dumps(j, indent=2, ensure_ascii=False)
Dumps(j) == Encode(j, 0)

-----------------------------------------------------------------------------
(* Result interpreter                                                       *)

\* s.strip()
RECURSIVE RStrip(_)
RStrip(s) ==
    IF s # "" /\ Char(s, Len(s)) \in Whitespace
    THEN RStrip(SubSeq(s, 1, Len(s) - 1)) ELSE s

Strip(s) == RStrip(From(s, SkipWS(s, 1)))

RECURSIVE SplitLines(_, _)
\* s.splitlines() from position i; the line boundaries are \n, \r and \r\n
SplitLines(s, i) ==
    IF i > Len(s) THEN <<>>
    ELSE Bind(FirstIn(LAMBDA k : Char(s, k) \in {"\n", "\r"}, i, Len(s)), LAMBDA b :
           IF b = 0 THEN <<From(s, i)>>
           ELSE <<SubSeq(s, i, b - 1)>>
                \o SplitLines(s, IF At(s, b, "\r\n") THEN b + 2 ELSE b + 1))

RECURSIVE FenceBody(_, _, _)
\* The rest of the pattern after the optional tag, at s[j], with \s* taking k
\* characters: \s* is greedy, so k counts down from the whole whitespace run;
\* (.*?) is lazy, so the body ends at the first closing "\n" FENCE.
FenceBody(s, j, k) ==
    IF k < 0 THEN [ok |-> FALSE, body |-> "", next |-> 0]
    ELSE Bind(IF At(s, j + k, "\n")
              THEN FindFrom(s, j + k + 1, "\n" \o FENCE) ELSE 0, LAMBDA e :
           IF e # 0
           THEN [ok |-> TRUE, body |-> SubSeq(s, j + k + 1, e - 1),
                 next |-> e + 1 + Len(FENCE)]
           ELSE FenceBody(s, j, k - 1))

\* A match of r"```(?:json)?\s*\n(.*?)\n```" (re.DOTALL) that starts at s[i]
FenceAt(s, i) ==
    IF ~At(s, i, FENCE) THEN [ok |-> FALSE, body |-> "", next |-> 0]
    ELSE Bind(IF At(s, i + 3, "json")
              THEN FenceBody(s, i + 7, SkipWS(s, i + 7) - (i + 7))
              ELSE [ok |-> FALSE, body |-> "", next |-> 0], LAMBDA tagged :
           IF tagged.ok THEN tagged
           ELSE FenceBody(s, i + 3, SkipWS(s, i + 3) - (i + 3)))

RECURSIVE FindFences(_, _)
\* re.findall(pattern, s, re.DOTALL) from position i: the bodies of the
\* non-overlapping matches, leftmost first
FindFences(s, i) ==
    Bind(FirstIn(LAMBDA j : FenceAt(s, j).ok, i, Len(s)), LAMBDA k :
      IF k = 0 THEN <<>>
      ELSE Bind(FenceAt(s, k), LAMBDA m : <<m.body>> \o FindFences(s, m.next)))

\* What a function returns, or the exception it raises
Ret(x) == [raised |-> FALSE, val |-> <<x>>, exc |-> ""]
Raise(e) == [raised |-> TRUE, val |-> <<>>, exc |-> e]
Val(r) == r.val[1]

\* json.loads(...) of s is a dict with a status key
IsWorkerJson(s) ==
    Bind(Loads(s), LAMBDA r :
      r.ok /\ T(r.v) = "dict" /\ "status" \in DOMAIN r.v.dict)

RECURSIVE FirstWorkerJson(_)
FirstWorkerJson(matches) ==
    IF Len(matches) = 0 THEN None
    ELSE IF IsWorkerJson(matches[1]) THEN Some(Loads(matches[1]).v.dict)
    ELSE FirstWorkerJson(Tail(matches))

\* _extract_worker_json(text): text is the JSON value raw.get("result", "").
\* For a value that is not a str, json.loads raises TypeError, which is
\* caught, and re.findall raises TypeError, which is not.
_extract_worker_json(text) ==
    IF T(text) # "str" THEN Raise("TypeError")
    ELSE IF IsWorkerJson(text.str) THEN Ret(Some(Loads(text.str).v.dict))
    ELSE Ret(FirstWorkerJson(FindFences(text.str, 1)))

MIN_QUESTION_LEN == 10

\* re.sub(r"^[\d]+[.)]\s*", "", line)
StripOrdinal(line) ==
    Bind(ScanDigits(line, 1, 0).next, LAMBDA d :
      IF d > 1 /\ (At(line, d, ".") \/ At(line, d, ")"))
      THEN From(line, SkipWS(line, d + 1)) ELSE line)

\* A mutant of StripBullet: the bullet marker is left in place
Mut_StripBullet(line) == line

\* re.sub(r"^[-*]\s*", "", line)
StripBullet(line) ==
    IF At(line, 1, "-") \/ At(line, 1, "*")
    THEN From(line, SkipWS(line, 2)) ELSE line

RECURSIVE QuestionsOf(_)
QuestionsOf(lines) ==
    IF Len(lines) = 0 THEN <<>>
    ELSE Bind(Strip(lines[1]), LAMBDA line :
           IF Len(line) < MIN_QUESTION_LEN \/ StartsWith(line, "#")
           THEN QuestionsOf(Tail(lines))
           ELSE Bind(StripBullet(StripOrdinal(line)), LAMBDA cleaned :
                  IF EndsWith(cleaned, "?") /\ Len(cleaned) > MIN_QUESTION_LEN
                  THEN <<JS(cleaned)>> \o QuestionsOf(Tail(lines))
                  ELSE QuestionsOf(Tail(lines))))

\* _fallback_extract_questions(text): a list of str
_fallback_extract_questions(text) == QuestionsOf(SplitLines(text, 1))

RAW_OUTPUT_LIMIT == 2000
EXIT_NOT_FOUND == 0 - 1
EXIT_TIMEOUT == 0 - 2
DEFAULT_TIMEOUT == 600

\* What subprocess.run did: kind is "notfound" (FileNotFoundError), "timeout"
\* (TimeoutExpired) or "exit" (a CompletedProcess)
Proc(kind, returncode, stdout, stderr) ==
    [kind |-> kind, returncode |-> returncode, stdout |-> stdout, stderr |-> stderr]

\* The metadata part of _run's result
ResultHead(raw) ==
    [session_id  |-> Get(raw, "session_id", JS("")),
     model       |-> Get(raw, "model", JS("")),
     cost_usd    |-> Get(raw, "total_cost_usd", JN(0)),
     duration_ms |-> Get(raw, "duration_ms", JN(0)),
     num_turns   |-> Get(raw, "num_turns", JN(0)),
     is_error    |-> Get(raw, "is_error", JB(FALSE)),
     subtype     |-> Get(raw, "subtype", JS(""))]

\* d.update(e) on dicts
Merge(d, e) ==
    [k \in (DOMAIN d) \cup (DOMAIN e) |-> IF k \in DOMAIN e THEN e[k] ELSE d[k]]

\* _run's result when the worker's structured payload worker_data was found
StructuredResult(raw, worker_data) ==
    Merge(ResultHead(raw),
          [status         |-> Get(worker_data, "status", JS("completed")),
           summary        |-> Get(worker_data, "summary", JS("")),
           analysis       |-> Get(worker_data, "analysis", JS("")),
           questions      |-> Get(worker_data, "questions", JL(<<>>)),
           files_analyzed |-> Get(worker_data, "files_analyzed", JL(<<>>))])

\* A mutant of FallbackResult: the tool's text is kept under the key result
Mut_FallbackKeepsResult(raw, raw_result, questions) ==
    Merge(ResultHead(raw),
          [status         |-> JS(IF Get(raw, "subtype", JNull) = JS("error_max_turns")
                                 THEN "incomplete"
                                 ELSE IF Len(questions) > 0
                                      THEN "needs_clarification"
                                      ELSE "completed"),
           summary        |-> JS(""),
           analysis       |-> raw_result,
           result         |-> raw_result,
           questions      |-> JL(questions),
           files_analyzed |-> JL(<<>>)])

\* A mutant of FallbackResult: the questions are looked at before the subtype
Mut_FallbackResult(raw, raw_result, questions) ==
    Merge(ResultHead(raw),
          [status         |-> JS(IF Len(questions) > 0
                                 THEN "needs_clarification"
                                 ELSE IF Get(raw, "subtype", JNull) = JS("error_max_turns")
                                      THEN "incomplete"
                                      ELSE "completed"),
           summary        |-> JS(""),
           analysis       |-> raw_result,
           questions      |-> JL(questions),
           files_analyzed |-> JL(<<>>)])

\* _run's result when no payload was found: questions is what
\* _fallback_extract_questions(raw_result) returned
FallbackResult(raw, raw_result, questions) ==
    Merge(ResultHead(raw),
          [status         |-> JS(IF Get(raw, "subtype", JNull) = JS("error_max_turns")
                                 THEN "incomplete"
                                 ELSE IF Len(questions) > 0
                                      THEN "needs_clarification"
                                      ELSE "completed"),
           summary        |-> JS(""),
           analysis       |-> raw_result,
           questions      |-> JL(questions),
           files_analyzed |-> JL(<<>>)])

\* The interpretation part of _run, once stdout has parsed to raw
Interpret(raw) ==
    IF T(raw) # "dict" THEN Raise("AttributeError")
    ELSE Bind(Get(raw.dict, "result", JS("")), LAMBDA raw_result :
           Bind(_extract_worker_json(raw_result), LAMBDA w :
             IF w.raised THEN w
             ELSE IF ~IsNone(Val(w))
             THEN Ret(StructuredResult(raw.dict, Val(w)[1]))
             ELSE Ret(FallbackResult(raw.dict, raw_result,
                                     _fallback_extract_questions(raw_result.str)))))

\* A mutant of _run: a timeout is reported with the sentinel of a missing
\* executable
Mut_run(p, timeout) ==
    IF p.kind = "timeout"
    THEN Ret([error     |-> JS("Task timed out after " \o IntToStr(timeout)
                               \o " seconds"),
              exit_code |-> JN(EXIT_NOT_FOUND)])
    ELSE IF p.kind = "notfound"
    THEN Ret([error     |-> JS("claude CLI not found. Install Claude Code first."),
              exit_code |-> JN(EXIT_NOT_FOUND)])
    ELSE Ret([error     |-> JS("claude exited with code " \o IntToStr(p.returncode)),
              exit_code |-> JN(p.returncode)])

\* _run(cmd, cwd, timeout) given what subprocess.run did
_run(p, timeout) ==
    IF p.kind = "notfound"
    THEN Ret([error     |-> JS("claude CLI not found. Install Claude Code first."),
              exit_code |-> JN(EXIT_NOT_FOUND)])
    ELSE IF p.kind = "timeout"
    THEN Ret([error     |-> JS("Task timed out after " \o IntToStr(timeout)
                               \o " seconds"),
              exit_code |-> JN(EXIT_TIMEOUT)])
    ELSE IF p.returncode # 0 /\ Strip(p.stdout) = ""
    THEN Ret([error     |-> JS(IF Strip(p.stderr) # "" THEN Strip(p.stderr)
                               ELSE "claude exited with code "
                                    \o IntToStr(p.returncode)),
              exit_code |-> JN(p.returncode)])
    ELSE Bind(Loads(p.stdout), LAMBDA raw :
           IF ~raw.ok
           THEN Ret([error      |-> JS("Failed to parse claude output as JSON"),
                     raw_output |-> JS(SubSeq(p.stdout, 1,
                                          IF Len(p.stdout) < RAW_OUTPUT_LIMIT
                                          THEN Len(p.stdout) ELSE RAW_OUTPUT_LIMIT)),
                     exit_code  |-> JN(p.returncode)])
           ELSE Interpret(raw.v))

-----------------------------------------------------------------------------
(* Session store: SESSION_DIR as a function from the stems of its *.json    *)
(* files to their text                                                      *)

Pad2(n) == IF n < 10 THEN "0" \o NatToStr(n) ELSE NatToStr(n)

\* datetime.isoformat() of the UTC time c seconds into the modelled minute
Iso(c) == "2026-01-01T00:00:" \o Pad2(c) \o "+00:00"

\* _now_iso() when the clock reads c
_now_iso(c) == JS(Iso(c))

\* The printable ASCII characters in code point order (without the backtick)
ASCII ==
    " !\"#$%&'()*+,-./0123456789:;<=>?@ABCDEFGHIJKLMNOPQRSTUVWXYZ[\\]^_abcdefghijklmnopqrstuvwxyz{|}~"

Ord(c) == FindFrom(ASCII, 1, c)

\* a < b on str: the order sorted() and the comparison operators use
StrLess(a, b) ==
    Bind(FirstIn(LAMBDA k : Char(a, k) # Char(b, k), 1,
                 IF Len(a) < Len(b) THEN Len(a) ELSE Len(b)), LAMBDA d :
      IF d = 0 THEN Len(a) < Len(b) ELSE Ord(Char(a, d)) < Ord(Char(b, d)))

\* f"{session_id}": the stem of _session_path(session_id)
Stem(session_id) ==
    IF T(session_id) = "int" THEN IntToStr(session_id.int) ELSE session_id.str

\* json.loads(text) of a file's text
ReadJson(text) ==
    Bind(Loads(text), LAMBDA r :
      IF r.ok THEN Ret(r.v) ELSE Raise("JSONDecodeError"))

\* A file: its text, held together with what json.loads makes of that text
File(text) == [text |-> text, json |-> ReadJson(text)]

\* fs with the file of stem k written / removed
WriteFile(fs, k, text) ==
    [x \in (DOMAIN fs) \cup {k} |-> IF x = k THEN File(text) ELSE fs[x]]
Unlink(fs, k) == [x \in (DOMAIN fs) \ {k} |-> fs[x]]

\* json.loads(path.read_text())
LoadFile(f) == f.json

UserTurn(content, ts) ==
    JD([role |-> JS("user"), content |-> JS(content), timestamp |-> ts])

\* A mutant of AssistantTurn: the turn's status is left out
Mut_AssistantTurn(result, ts) ==
    JD([role      |-> JS("assistant"),
        content   |-> Get(result, "result", JS("")),
        status    |-> JNull,
        timestamp |-> ts])

AssistantTurn(result, ts) ==
    JD([role      |-> JS("assistant"),
        content   |-> Get(result, "result", JS("")),
        status    |-> Get(result, "status", JNull),
        timestamp |-> ts])

\* The record session_save builds; ts are its four readings of the clock, in
\* the order the code takes them
SaveData(session_id, task, result, cwd, model, ts) ==
    [session_id   |-> session_id,
     task         |-> JS(task),
     cwd          |-> JS(cwd),
     model        |-> model,
     created_at   |-> _now_iso(ts[1]),
     updated_at   |-> _now_iso(ts[2]),
     turns        |-> JL(<<UserTurn(task, _now_iso(ts[3])),
                           AssistantTurn(result, _now_iso(ts[4]))>>),
     last_status  |-> Get(result, "status", JS("completed")),
     last_summary |-> Get(result, "summary", JS(""))]

\* session_save(session_id, task, result, cwd, model) on the directory fs:
\* the directory afterwards
session_save(fs, session_id, task, result, cwd, model, ts) ==
    WriteFile(fs, Stem(session_id),
              Dumps(JD(SaveData(session_id, task, result, cwd, model, ts))))

\* The first half of session_update: path.read_text(), json.loads and the two
\* appends and three assignments on data, now being _now_iso()'s reading
UpdateData(fs, session_id, message, result, now) ==
    IF Stem(session_id) \notin DOMAIN fs THEN Raise("FileNotFoundError")
    ELSE Bind(LoadFile(fs[Stem(session_id)]), LAMBDA r :
           IF r.raised THEN r
           ELSE IF T(Val(r)) # "dict" THEN Raise("TypeError")
           ELSE Bind(Val(r).dict, LAMBDA data :
                  IF "turns" \notin DOMAIN data THEN Raise("KeyError")
                  ELSE IF T(data["turns"]) # "list" THEN Raise("AttributeError")
                  ELSE Ret([k \in (DOMAIN data)
                                  \cup {"updated_at", "last_status", "last_summary"} |->
                            CASE k = "turns" ->
                                    JL(data["turns"].list
                                       \o <<UserTurn(message, _now_iso(now)),
                                            AssistantTurn(result, _now_iso(now))>>)
                              [] k = "updated_at"   -> _now_iso(now)
                              [] k = "last_status"  -> Get(result, "status", JS("completed"))
                              [] k = "last_summary" -> Get(result, "summary", JS(""))
                              [] OTHER -> data[k]])))

\* A mutant of UpdateWrite: the two new turns are merged into the file as it
\* is when it is written
Mut_UpdateWrite(fs, session_id, data) ==
    WriteFile(fs, Stem(session_id),
              Dumps(JD(Put(data, "turns",
                           JL(Val(LoadFile(fs[Stem(session_id)])).dict["turns"].list
                              \o SubSeq(data["turns"].list,
                                        Len(data["turns"].list) - 1,
                                        Len(data["turns"].list)))))))

\* The second half of session_update: path.write_text(json.dumps(data, ...))
UpdateWrite(fs, session_id, data) == WriteFile(fs, Stem(session_id), Dumps(JD(data)))

\* session_update(session_id, message, result) on the directory fs:
\* [raised, exc, fs]: the exception raised, or the directory afterwards
session_update(fs, session_id, message, result, now) ==
    Bind(UpdateData(fs, session_id, message, result, now), LAMBDA d :
      IF d.raised THEN [raised |-> TRUE, exc |-> d.exc, fs |-> fs]
      ELSE [raised |-> FALSE, exc |-> "", fs |-> UpdateWrite(fs, session_id, Val(d))])

\* What session_get returns for the file f it picked
LoadSession(f) ==
    Bind(LoadFile(f), LAMBDA r : IF r.raised THEN r ELSE Ret(Some(Val(r))))

\* A mutant of session_get: the scan for a prefix is left out
Mut_session_get(fs, session_id) ==
    IF session_id \in DOMAIN fs THEN {LoadSession(fs[session_id])} ELSE {Ret(None)}

\* session_get(session_id) on the directory fs: the set of what it can return
\* (None or the loaded record) or raise; glob enumerates in any order, so a
\* prefix scan can return any of the matching files
session_get(fs, session_id) ==
    IF session_id \in DOMAIN fs THEN {LoadSession(fs[session_id])}
    ELSE IF \A k \in DOMAIN fs : ~StartsWith(k, session_id) THEN {Ret(None)}
    ELSE {LoadSession(fs[k]) : k \in {x \in DOMAIN fs : StartsWith(x, session_id)}}

\* A mutant of SessionGetIn: the scan for a prefix is made first, and a file
\* of exactly this name is not looked for
Mut_SessionGetIn(fs, order, session_id) ==
    Bind(FirstIn(LAMBDA i : StartsWith(order[i], session_id), 1, Len(order)),
         LAMBDA k : IF k = 0 THEN Ret(None) ELSE LoadSession(fs[order[k]]))

\* session_get(session_id) on the directory fs when glob enumerates its files
\* in this order: the exact file if there is one, else the first enumerated
\* file whose stem starts with session_id, else None
SessionGetIn(fs, order, session_id) ==
    IF session_id \in DOMAIN fs THEN LoadSession(fs[session_id])
    ELSE Bind(FirstIn(LAMBDA i : StartsWith(order[i], session_id), 1, Len(order)),
              LAMBDA k : IF k = 0 THEN Ret(None) ELSE LoadSession(fs[order[k]]))

\* A mutant of session_delete: the file is reported deleted and left in place
Mut_session_delete(fs, session_id) ==
    [ret |-> session_id \in DOMAIN fs, fs |-> fs]

\* session_delete(session_id) on the directory fs: what it returns and the
\* directory afterwards
session_delete(fs, session_id) ==
    IF session_id \in DOMAIN fs
    THEN [ret |-> TRUE, fs |-> Unlink(fs, session_id)]
    ELSE [ret |-> FALSE, fs |-> fs]

\* a < b on the sort keys session_list compares (str with str, int with int)
KeyLess(a, b) ==
    IF T(a) = "str" THEN StrLess(a.str, b.str) ELSE a.int < b.int

RECURSIVE SortDesc(_, _)
\* list.sort(key=updated_at, reverse=True) of xs appended to the sorted acc:
\* descending and stable (equal keys keep their order)
SortDesc(xs, acc) ==
    IF Len(xs) = 0 THEN acc
    ELSE Bind(FirstIn(LAMBDA i : KeyLess(acc[i].dict["updated_at"],
                                         xs[1].dict["updated_at"]), 1, Len(acc)),
              LAMBDA k :
           SortDesc(Tail(xs),
                    IF k = 0 THEN Append(acc, xs[1])
                    ELSE SubSeq(acc, 1, k - 1) \o <<xs[1]>> \o SubSeq(acc, k, Len(acc))))

\* len(x) of a JSON value; "null" and numbers have none (TypeError)
HasLen(j) == T(j) \in {"str", "list", "dict"}
PyLen(j) ==
    CASE T(j) = "str"  -> Len(j.str)
      [] T(j) = "list" -> Len(j.list)
      [] T(j) = "dict" -> Cardinality(DOMAIN j.dict)

\* One pass of session_list's loop body over a file: "skip" (JSONDecodeError
\* or KeyError, caught), "raise" or the entry
ListEntry(f) ==
    Bind(LoadFile(f), LAMBDA r :
      IF r.raised THEN [kind |-> "skip", exc |-> "", entry |-> JNull]
      ELSE IF T(Val(r)) # "dict"
      THEN [kind |-> "raise", exc |-> "TypeError", entry |-> JNull]
      ELSE Bind(Val(r).dict, LAMBDA data :
         IF {"session_id", "task", "created_at"} \ (DOMAIN data) # {}
         THEN [kind |-> "skip", exc |-> "", entry |-> JNull]
         ELSE IF ~HasLen(Get(data, "turns", JL(<<>>)))
         THEN [kind |-> "raise", exc |-> "TypeError", entry |-> JNull]
         ELSE [kind |-> "entry", exc |-> "",
               entry |-> JD([session_id   |-> data["session_id"],
                             task         |-> data["task"],
                             cwd          |-> Get(data, "cwd", JS("")),
                             model        |-> Get(data, "model", JS("")),
                             created_at   |-> data["created_at"],
                             updated_at   |-> Get(data, "updated_at", data["created_at"]),
                             turns        |-> JN(PyLen(Get(data, "turns", JL(<<>>)))),
                             last_status  |-> Get(data, "last_status", JS("")),
                             last_summary |-> Get(data, "last_summary", JS(""))])]))

RECURSIVE ListEntries(_, _)
\* The loop of session_list over the files in the order glob gives them
ListEntries(fs, order) ==
    IF Len(order) = 0 THEN Ret(<<>>)
    ELSE Bind(ListEntry(fs[order[1]]), LAMBDA e :
           IF e.kind = "raise" THEN Raise(e.exc)
           ELSE Bind(ListEntries(fs, Tail(order)), LAMBDA rest :
                  IF rest.raised THEN rest
                  ELSE IF e.kind = "skip" THEN rest
                  ELSE Ret(<<e.entry>> \o Val(rest))))

\* The sort keys can be compared with one another: all str or all int
SameType(keys) == (\A k \in keys : T(k) = "str") \/ (\A k \in keys : T(k) = "int")

\* session_list() on the directory fs, glob giving the files in this order;
\* sorting raises TypeError when two keys cannot be compared
session_list(fs, order) ==
    Bind(ListEntries(fs, order), LAMBDA es :
      IF es.raised THEN es
      ELSE IF Len(Val(es)) > 1 /\ ~SameType({Val(es)[i].dict["updated_at"] :
                                             i \in 1..Len(Val(es))})
      THEN Raise("TypeError")
      ELSE Ret(SortDesc(Val(es), <<>>)))

\* The orders in which glob can enumerate the directory
GlobOrders(fs) ==
    LET n == Cardinality(DOMAIN fs) IN
    {q \in [1..n -> DOMAIN fs] : \A i, j \in 1..n : i # j => q[i] # q[j]}

-----------------------------------------------------------------------------
(* Command-line drivers                                                     *)

\* print(json.dumps(data, indent=2, ensure_ascii=False)), data a JSON value
_print_json(data) == Dumps(data) \o "\n"

\* print(json.dumps({"error": message}, indent=2), file=sys.stderr)
_print_error(message) == Dumps(JD([error |-> JS(message)])) \o "\n"

\* What the interpreter writes to stderr when an exception reaches main()
Traceback(exc) == "Traceback (most recent call last):\n" \o exc \o "\n"

EXIT_CRASH == 1

\* How a command ends: the directory, what it wrote to stdout and stderr, the
\* exit status, and the exception that ended it ("" when it returned)
Done(fs, stdout, stderr, code) ==
    [fs |-> fs, stdout |-> stdout, stderr |-> stderr, code |-> code, exc |-> ""]
Crash(fs, exc) ==
    [fs |-> fs, stdout |-> "", stderr |-> Traceback(exc), code |-> EXIT_CRASH,
     exc |-> exc]

\* x or default, for an optional str x
OrElse(o, default) == IF IsNone(o) \/ o[1] = "" THEN default ELSE o[1]

\* exec_task(task, ...) and continue_session(session_id, message, ...): the
\* command is built and handed to _run with the default timeout; p is what the
\* external process did
exec_task(p) == _run(p, DEFAULT_TIMEOUT)
continue_session(p) == _run(p, DEFAULT_TIMEOUT)

\* cmd_exec(args): r is what exec_task returned, ts the clock readings
\* session_save takes
cmd_exec(fs, a, r, ts) ==
    IF r.raised THEN Crash(fs, r.exc)
    ELSE Bind(Val(r), LAMBDA result :
           IF "error" \in DOMAIN result THEN Done(fs, _print_json(JD(result)), "", 1)
           ELSE Done(IF Truthy(Get(result, "session_id", JS("")))
                     THEN session_save(fs, Get(result, "session_id", JS("")),
                                       a.task, result, OrElse(a.cwd, "."),
                                       Get(result, "model", JS(OrElse(a.model, ""))), ts)
                     ELSE fs,
                     _print_json(JD(result)), "", 0))

\* The first lines of cmd_continue, g being what session_get returned:
\* [raised, exc, found, full_id, cwd]
ContinueTarget(a, g) ==
    IF g.raised THEN [raised |-> TRUE, exc |-> g.exc, found |-> FALSE,
                      full_id |-> JS(""), cwd |-> JS("")]
    ELSE IF IsNone(Val(g)) \/ ~Truthy(Val(g)[1])
    THEN [raised |-> FALSE, exc |-> "", found |-> FALSE,
          full_id |-> JS(a.session_id), cwd |-> JS(".")]
    ELSE IF T(Val(g)[1]) # "dict"
    THEN [raised |-> TRUE, exc |-> "TypeError", found |-> FALSE,
          full_id |-> JS(""), cwd |-> JS("")]
    ELSE IF "session_id" \notin DOMAIN Val(g)[1].dict
    THEN [raised |-> TRUE, exc |-> "KeyError", found |-> FALSE,
          full_id |-> JS(""), cwd |-> JS("")]
    ELSE [raised |-> FALSE, exc |-> "", found |-> TRUE,
          full_id |-> Val(g)[1].dict["session_id"],
          cwd |-> Get(Val(g)[1].dict, "cwd", JS("."))]

\* The part of cmd_continue after continue_session returned r, t being the
\* target the first lines found
ContinueFinish(fs, a, t, r, now) ==
    IF r.raised THEN Crash(fs, r.exc)
    ELSE Bind(Val(r), LAMBDA result :
           IF "error" \in DOMAIN result THEN Done(fs, _print_json(JD(result)), "", 1)
           ELSE IF ~t.found THEN Done(fs, _print_json(JD(result)), "", 0)
           ELSE Bind(session_update(fs, t.full_id, a.message, result, now), LAMBDA u :
                  IF u.raised THEN Crash(fs, u.exc)
                  ELSE Done(u.fs, _print_json(JD(result)), "", 0)))

\* A mutant of cmd_continue: the session is updated before the result is
\* looked at for an error
Mut_cmd_continue(fs, a, g, r, now) ==
    Bind(ContinueTarget(a, g), LAMBDA t :
      IF t.raised THEN Crash(fs, t.exc)
      ELSE IF r.raised THEN Crash(fs, r.exc)
      ELSE IF ~t.found THEN ContinueFinish(fs, a, t, r, now)
      ELSE Bind(session_update(fs, t.full_id, a.message, Val(r), now), LAMBDA u :
             IF u.raised THEN Crash(fs, u.exc)
             ELSE Done(u.fs, _print_json(JD(Val(r))), "",
                       IF "error" \in DOMAIN Val(r) THEN 1 ELSE 0)))

\* cmd_continue(args): g is what session_get returned, r what
\* continue_session returned, now the clock reading session_update takes
cmd_continue(fs, a, g, r, now) ==
    Bind(ContinueTarget(a, g), LAMBDA t :
      IF t.raised THEN Crash(fs, t.exc) ELSE ContinueFinish(fs, a, t, r, now))

\* sessions[:limit]
Slice(xs, limit) ==
    LET n == IF limit < 0 THEN Len(xs) + limit ELSE limit IN
    SubSeq(xs, 1, IF n > Len(xs) THEN Len(xs) ELSE n)

\* cmd_sessions(args): order is the order glob enumerates the directory in
cmd_sessions(fs, a, order) ==
    Bind(session_list(fs, order), LAMBDA l :
      IF l.raised THEN Crash(fs, l.exc)
      ELSE Bind(IF IsNone(a.limit) \/ a.limit[1] = 0 THEN Val(l)
                ELSE Slice(Val(l), a.limit[1]), LAMBDA sessions :
             Done(fs, _print_json(JD([sessions |-> JL(sessions),
                                      count    |-> JN(Len(sessions))])), "", 0)))

\* cmd_status(args): g is what session_get returned
cmd_status(fs, a, g) ==
    IF g.raised THEN Crash(fs, g.exc)
    ELSE IF IsNone(Val(g)) \/ ~Truthy(Val(g)[1])
    THEN Done(fs, "", _print_error("Session not found: " \o a.session_id), 1)
    ELSE Done(fs, _print_json(Val(g)[1]), "", 0)

\* cmd_delete(args)
cmd_delete(fs, a) ==
    Bind(session_delete(fs, a.session_id), LAMBDA d :
      IF d.ret
      THEN Done(d.fs, _print_json(JD([deleted |-> JS(a.session_id)])), "", 0)
      ELSE Done(d.fs, "", _print_error("Session not found: " \o a.session_id), 1))

-----------------------------------------------------------------------------
(* Command builder: its inputs and its calls                               *)

\* Bounds of the command builder's inputs
MaxTurnsArg == 1

CmdTexts == {"", "review the parser", "--disallowedTools"}
CmdModels == {None, Some(""), Some("opus")}
CmdMaxTurns == ((0 - 1)..MaxTurnsArg) \cup {DEFAULT_MAX_TURNS}
CmdAllowed ==
    {None, Some(<<>>), Some(<<"Bash">>), Some(<<"Read", "Edit", "Write">>),
     Some(<<"Edit", "Write", "Bash", "NotebookEdit">>), Some(<<"", "">>)}
CmdSessionIds == {"", "s1", "--disallowedTools"}

\* The calls of the command builder that are tried
CmdCalls ==
    {[op |-> "exec", bin |-> bin, text |-> task, model |-> model,
      max_turns |-> max_turns, allowed_tools |-> allowed_tools, session_id |-> ""] :
        bin \in ClaudeBins, task \in CmdTexts, model \in CmdModels,
        max_turns \in CmdMaxTurns, allowed_tools \in CmdAllowed}
    \cup
    {[op |-> "continue", bin |-> bin, text |-> message, model |-> model,
      max_turns |-> max_turns, allowed_tools |-> None, session_id |-> session_id] :
        bin \in ClaudeBins, message \in CmdTexts, model \in CmdModels,
        max_turns \in CmdMaxTurns, session_id \in CmdSessionIds}

NoCall == [op |-> "none"]
CmdIdle == call = NoCall /\ argv = <<>>

\* exec_task builds its command
BuildExec ==
    /\ call.op = "exec" /\ argv = <<>>
    /\ argv' = _build_exec_cmd(call.bin, call.text, call.model, call.max_turns,
                               call.allowed_tools)
    /\ UNCHANGED <<call, runVars, storeVars, concVars>>

\* continue_session builds its command
BuildContinue ==
    /\ call.op = "continue" /\ argv = <<>>
    /\ argv' = _build_continue_cmd(call.bin, call.session_id, call.text, call.model,
                                   call.max_turns)
    /\ UNCHANGED <<call, runVars, storeVars, concVars>>

-----------------------------------------------------------------------------
(* The external tool: what one run of it can do                             *)

NoProc == Proc("none", 0, "", "")
NoRes == [raised |-> FALSE, val |-> <<>>, exc |-> ""]

\* The JSON document the tool prints: the keys that are given (an absent key
\* is the empty tuple)
RawDoc(sid, subtype, result) ==
    Dumps(JD([k \in {x \in {"session_id", "subtype", "result"} :
                     (x = "session_id" /\ sid # <<>>)
                     \/ (x = "subtype" /\ subtype # <<>>)
                     \/ (x = "result" /\ result # <<>>)} |->
              CASE k = "session_id" -> sid[1]
                [] k = "subtype"    -> subtype[1]
                [] k = "result"     -> result[1]]))

\* Runs that end in a process-level failure
FailedRuns ==
    {Proc("notfound", 0, "", ""), Proc("timeout", 0, "", ""),
     Proc("exit", 1, "", "boom\n"), Proc("exit", 2, " \n", ""),
     Proc("exit", 0, "", ""), Proc("exit", 0, "All done.", ""),
     Proc("exit", 1, "{\"result\": ", "killed")}

PlainText == "All done."
QuestionText == "1. What is the deployment target?\nSome notes.\n2. Is caching required?"
FencedText ==
    "Here:\n" \o FENCE \o "json\n{\"status\":\"needs_clarification\","
    \o "\"questions\":[\"What port should the service use?\"]}\n" \o FENCE \o "\nbye"

\* The values of the result field the runner is tried on: a str with and
\* without a structured payload, and values that are not a str
RunResults ==
    {JS(""), JS(PlainText), JS(QuestionText), JS(FencedText),
     JS("{\"status\": \"completed\", \"summary\": \"ok\", \"files_analyzed\": [\"a.py\"]}"),
     JS("{\"status\": \"completed\", \"questions\": [\"Which branch?\"]}"),
     JS("{\"status\": \"done\"}"),
     JS("{\"status\": 3, \"questions\": \"none\"}"),
     JS("{\"summary\": \"no status\"}"),
     JS(FENCE \o "\n{\"nostatus\": 1}\n" \o FENCE \o "\nIs this one a question?"),
     JNull, JN(4), JL(<<JS("x")>>), JD([status |-> JS("completed")])}

RunSubtypes == {<<>>, <<JS("success")>>, <<JS("error_max_turns")>>}
RunSessionIds == {<<>>, <<JS("s1")>>}

\* Runs whose stdout parses as JSON
ParsedRuns ==
    {Proc("exit", rc, RawDoc(sid, st, <<r>>), "") :
        rc \in {0, 1}, sid \in RunSessionIds, st \in RunSubtypes, r \in RunResults}
    \cup {Proc("exit", 0, RawDoc(sid, st, <<>>), "") :
            sid \in RunSessionIds, st \in RunSubtypes}
    \cup {Proc("exit", 0, text, "") : text \in {"[]", "\"text\"", "3", "null", " {} "}}

RunTimeouts == {1, DEFAULT_TIMEOUT}

\* The calls of _run that are tried
RunCalls == {[op |-> "run", timeout |-> t] : t \in RunTimeouts}

RunIdle == proc = NoProc /\ res = NoRes

\* _run returns (or raises)
RunCall ==
    /\ call.op = "run" /\ res = NoRes
    /\ res' = _run(proc, call.timeout)
    /\ UNCHANGED <<cmdVars, proc, storeVars, concVars>>

-----------------------------------------------------------------------------
(* The commands, run one after another                                      *)

\* Bounds: the clock's last reading, the runs of exec and continue, and the
\* runs of sessions, status and delete
MaxClock == 1
MaxInvocations == 2
MaxQueries == 1

\* The runs of the external tool the drivers are tried on
ToolSessionIds == {"a", "ab"}
ToolRuns ==
    {Proc("notfound", 0, "", ""), Proc("timeout", 0, "", ""),
     Proc("exit", 1, "", "boom\n"), Proc("exit", 0, "All done.", ""),
     Proc("exit", 0, "[]", ""), Proc("exit", 0, RawDoc(<<JS("a")>>, <<>>, <<JNull>>), ""),
     Proc("exit", 0, RawDoc(<<>>, <<>>, <<JS(PlainText)>>), "")}
    \cup {Proc("exit", 0, RawDoc(<<JS(sid)>>, <<JS("success")>>, <<JS(r)>>), "") :
            sid \in ToolSessionIds, r \in {PlainText, "Which module should I read?"}}

\* What exec_task and continue_session return for each of these runs
ExecResults == [p \in ToolRuns |-> exec_task(p)]
ContinueResults == [p \in ToolRuns |-> continue_session(p)]

\* The session ids given on the command line: ids and prefixes of ids
CliIds == {"a", "ab", "b"}

ExecArgs == [task |-> "review", cwd |-> None, model |-> None]
ContinueArgs(sid) == [session_id |-> sid, message |-> "more"]

NoOut == [cmd |-> "none", a |-> <<>>, stdout |-> "", stderr |-> "", code |-> 0, exc |-> ""]
Output(cmd, a, d) ==
    [cmd |-> cmd, a |-> a, stdout |-> d.stdout, stderr |-> d.stderr,
     code |-> d.code, exc |-> d.exc]

StoreIdle == files = <<>> /\ clock = 0 /\ out = NoOut /\ hist = [n |-> 0, q |-> 0]
ConcIdle == pc = <<>> /\ loc = <<>>

\* cmd_exec reaches session_save for the result r
Saves(r) ==
    /\ ~r.raised
    /\ "error" \notin DOMAIN Val(r)
    /\ Truthy(Get(Val(r), "session_id", JS("")))

\* The clock readings of one session_save: the clock may tick once between
\* two of its four readings
SaveReadings ==
    {[i \in 1..4 |-> IF i <= k THEN clock ELSE clock + 1] :
        k \in IF clock < MaxClock THEN 0..4 ELSE {4}}

\* Time passes
Tick ==
    /\ clock < MaxClock
    /\ clock' = clock + 1
    /\ UNCHANGED <<cmdVars, runVars, files, out, hist, concVars>>

\* cc-worker exec TASK
Exec ==
    /\ hist.n < MaxInvocations
    /\ \E p \in ToolRuns :
        \E ts \in IF Saves(ExecResults[p]) THEN SaveReadings
                  ELSE {[i \in 1..4 |-> clock]} :
          \E d \in {cmd_exec(files, ExecArgs, ExecResults[p], ts)} :
            /\ proc' = p
            /\ res' = ExecResults[p]
            /\ files' = d.fs
            /\ clock' = ts[4]
            /\ out' = Output("exec", <<"review">>, d)
            /\ hist' = [hist EXCEPT !.n = @ + 1]
    /\ UNCHANGED <<cmdVars, concVars>>

\* cc-worker continue SESSION_ID MESSAGE
Continue ==
    /\ hist.n < MaxInvocations
    /\ \E sid \in CliIds, p \in ToolRuns :
        \E g \in session_get(files, sid) :
          \E d \in {cmd_continue(files, ContinueArgs(sid), g, ContinueResults[p], clock)} :
            /\ proc' = p
            /\ res' = ContinueResults[p]
            /\ files' = d.fs
            /\ out' = Output("continue", <<sid, "more">>, d)
            /\ hist' = [hist EXCEPT !.n = @ + 1]
    /\ UNCHANGED <<cmdVars, clock, concVars>>

\* cc-worker sessions [--limit N]
Sessions ==
    /\ hist.q < MaxQueries
    /\ \E limit \in {None, Some(1)}, order \in GlobOrders(files) :
        \E d \in {cmd_sessions(files, [limit |-> limit], order)} :
          out' = Output("sessions", <<>>, d)
    /\ hist' = [hist EXCEPT !.q = @ + 1]
    /\ UNCHANGED <<cmdVars, runVars, files, clock, concVars>>

\* cc-worker status SESSION_ID
Status ==
    /\ hist.q < MaxQueries
    /\ \E sid \in CliIds :
        \E g \in session_get(files, sid) :
          \E d \in {cmd_status(files, [session_id |-> sid], g)} :
            out' = Output("status", <<sid>>, d)
    /\ hist' = [hist EXCEPT !.q = @ + 1]
    /\ UNCHANGED <<cmdVars, runVars, files, clock, concVars>>

\* cc-worker delete SESSION_ID
Delete ==
    /\ hist.q < MaxQueries
    /\ \E sid \in CliIds :
        \E d \in {cmd_delete(files, [session_id |-> sid])} :
          /\ files' = d.fs
          /\ out' = Output("delete", <<sid>>, d)
    /\ hist' = [hist EXCEPT !.q = @ + 1]
    /\ UNCHANGED <<cmdVars, runVars, clock, concVars>>

-----------------------------------------------------------------------------
(* Two continue commands at once on one stored session                      *)

\* The two invocations
Procs == {1, 2}

\* The tool run that answers with the session id sid and the text r
Answer(sid, r) == Proc("exit", 0, RawDoc(<<JS(sid)>>, <<JS("success")>>, <<JS(r)>>), "")

\* The session directory after `cc-worker exec review` stored session "a"
ConcStore ==
    cmd_exec(<<>>, ExecArgs, ExecResults[Answer("a", PlainText)], [i \in 1..4 |-> 0]).fs

\* The runs of the external tool the two invocations are tried on
ConcRuns ==
    {Proc("notfound", 0, "", ""), Answer("a", PlainText),
     Answer("a", "Which module should I read?")}

\* cc-worker continue a first / cc-worker continue a second
ConcArgs(i) == [session_id |-> "a", message |-> IF i = 1 THEN "first" ELSE "second"]

\* What an invocation holds: the target the first lines found (t), what
\* continue_session returned (result), the file session_update read (read),
\* the record it built (data), its place among the writes (order), and its
\* exit status (code); each empty until it is set
NoLoc == [t |-> <<>>, result |-> <<>>, read |-> <<>>, data |-> <<>>,
          order |-> 0, code |-> <<>>]

\* Invocation i ends as d says
Finish(i, d) ==
    /\ pc' = [pc EXCEPT ![i] = "done"]
    /\ out' = Output("continue", <<ConcArgs(i).session_id, ConcArgs(i).message>>, d)

\* cmd_continue up to session_get's return
CGet(i) ==
    /\ pc[i] = "get"
    /\ \E g \in session_get(files, ConcArgs(i).session_id) :
        \E t \in {ContinueTarget(ConcArgs(i), g)} :
          IF t.raised
          THEN /\ Finish(i, Crash(files, t.exc))
               /\ loc' = [loc EXCEPT ![i].code = <<EXIT_CRASH>>]
          ELSE /\ pc' = [pc EXCEPT ![i] = "run"]
               /\ loc' = [loc EXCEPT ![i].t = <<t>>]
               /\ out' = out
    /\ UNCHANGED <<cmdVars, runVars, files, clock, hist>>

\* continue_session returns, and cmd_continue goes on to session_update's
\* call or ends
CRun(i) ==
    /\ pc[i] = "run"
    /\ \E p \in ConcRuns :
        \E r \in {ContinueResults[p]} :
          IF r.raised \/ "error" \in DOMAIN Val(r) \/ ~loc[i].t[1].found
          THEN \E d \in {ContinueFinish(files, ConcArgs(i), loc[i].t[1], r, clock)} :
                 /\ Finish(i, d)
                 /\ loc' = [loc EXCEPT ![i].code = <<d.code>>]
          ELSE /\ pc' = [pc EXCEPT ![i] = "read"]
               /\ loc' = [loc EXCEPT ![i].result = <<Val(r)>>]
               /\ out' = out
    /\ UNCHANGED <<cmdVars, runVars, files, clock, hist>>

\* session_update reads the file and builds the new record
CRead(i) ==
    /\ pc[i] = "read"
    /\ \E d \in {UpdateData(files, loc[i].t[1].full_id, ConcArgs(i).message,
                            loc[i].result[1], clock)} :
        IF d.raised
        THEN /\ Finish(i, Crash(files, d.exc))
             /\ loc' = [loc EXCEPT ![i].code = <<EXIT_CRASH>>]
        ELSE /\ pc' = [pc EXCEPT ![i] = "write"]
             /\ loc' = [loc EXCEPT ![i].read = <<files[Stem(loc[i].t[1].full_id)]>>,
                                   ![i].data = <<Val(d)>>]
             /\ out' = out
    /\ UNCHANGED <<cmdVars, runVars, files, clock, hist>>

\* session_update writes the file, and cmd_continue prints the result
CWrite(i) ==
    /\ pc[i] = "write"
    /\ files' = UpdateWrite(files, loc[i].t[1].full_id, loc[i].data[1])
    /\ hist' = [hist EXCEPT !.n = @ + 1]
    /\ loc' = [loc EXCEPT ![i].order = hist.n + 1, ![i].code = <<0>>]
    /\ Finish(i, Done(files', _print_json(JD(loc[i].result[1])), "", 0))
    /\ UNCHANGED <<cmdVars, runVars, clock>>

\* Time passes while the two invocations run
ConcTick ==
    /\ clock < MaxClock
    /\ clock' = clock + 1
    /\ UNCHANGED <<cmdVars, runVars, files, out, hist, concVars>>

-----------------------------------------------------------------------------
(* One exec command, with the external process and the wall clock running   *)
(* beside it: subprocess.run(cmd, ..., timeout=timeout) starts the process, *)
(* waits for it at most timeout seconds, and when the time is up kills it,  *)
(* waits for it and raises TimeoutExpired.                                  *)

\* Bounds: the largest timeout tried, and the longest a terminating process
\* runs
MaxTimeout == 3
MaxRunTime == 3

\* What the external process does when started: the executable is missing, it
\* never terminates on its own, or it terminates after some time with a result
TimedTools ==
    {[kind |-> "notfound", after |-> 0, p |-> NoProc],
     [kind |-> "hang", after |-> 0, p |-> NoProc]}
    \cup {[kind |-> "exit", after |-> d, p |-> p] :
            d \in 0..MaxRunTime,
            p \in {Answer("b", PlainText), Proc("exit", 1, "", "boom\n"),
                   Proc("exit", 0, PlainText, "")}}

\* The calls exec_task(task, timeout=t) that are tried
TimedCalls == {[op |-> "exec", timeout |-> t] : t \in 1..MaxTimeout}

\* The session directories the command starts on
TimedStores == {<<>>, ConcStore}

\* What the invocation holds: what the process will do (tool), the state of
\* the process (child), and the session directory as it was at the start
\* (before). The clock reads 0 at the start: its reading is the time waited.
TimedLoc(tool, fs) == [tool |-> tool, child |-> "none", before |-> fs]

\* What subprocess.run can return or raise for these tools
TimedProcs ==
    {Proc("notfound", 0, "", ""), Proc("timeout", 0, "", "")}
    \cup {tool.p : tool \in {x \in TimedTools : x.kind = "exit"}}

\* What exec_task(task, timeout=t) returns for each of them, and how cmd_exec
\* ends on the directory fs when the clock reads c
TimedResults == [p \in TimedProcs, t \in 1..MaxTimeout |-> _run(p, t)]
TimedEnds ==
    [fs \in TimedStores, p \in TimedProcs, t \in 1..MaxTimeout, c \in 0..MaxTimeout |->
        cmd_exec(fs, ExecArgs, TimedResults[p, t], [i \in 1..4 |-> c])]

\* subprocess.run starts the process, or raises FileNotFoundError
TSpawn ==
    /\ pc = <<"spawn">>
    /\ IF loc[1].tool.kind = "notfound"
       THEN proc' = Proc("notfound", 0, "", "") /\ pc' = <<"return">> /\ loc' = loc
       ELSE proc' = proc /\ pc' = <<"wait">>
            /\ loc' = [loc EXCEPT ![1].child = "running"]
    /\ UNCHANGED <<cmdVars, res, storeVars>>

\* A second passes while subprocess.run waits
TPass ==
    /\ pc = <<"wait">>
    /\ clock < call.timeout
    /\ clock' = clock + 1
    /\ UNCHANGED <<cmdVars, runVars, files, out, hist, concVars>>

\* The process terminates on its own
TChildExit ==
    /\ pc = <<"wait">>
    /\ loc[1].child = "running"
    /\ loc[1].tool.kind = "exit" /\ clock >= loc[1].tool.after
    /\ loc' = [loc EXCEPT ![1].child = "exited"]
    /\ UNCHANGED <<cmdVars, runVars, storeVars, pc>>

\* subprocess.run returns the CompletedProcess of a process that terminated
TCollect ==
    /\ pc = <<"wait">>
    /\ loc[1].child = "exited"
    /\ proc' = loc[1].tool.p
    /\ pc' = <<"return">>
    /\ UNCHANGED <<cmdVars, res, storeVars, loc>>

\* The time is up: subprocess.run kills the process, waits for it and raises
\* TimeoutExpired
TExpire ==
    /\ pc = <<"wait">>
    /\ loc[1].child = "running"
    /\ clock >= call.timeout
    /\ proc' = Proc("timeout", 0, "", "")
    /\ loc' = [loc EXCEPT ![1].child = "killed"]
    /\ pc' = <<"return">>
    /\ UNCHANGED <<cmdVars, res, storeVars>>

\* _run returns to exec_task, and cmd_exec goes on with what it returned
TReturn ==
    /\ pc = <<"return">>
    /\ res' = TimedResults[proc, call.timeout]
    /\ files' = TimedEnds[files, proc, call.timeout, clock].fs
    /\ out' = Output("exec", <<"review">>, TimedEnds[files, proc, call.timeout, clock])
    /\ pc' = <<"done">>
    /\ UNCHANGED <<cmdVars, proc, clock, hist, loc>>

-----------------------------------------------------------------------------
(* The session store's functions on a directory of any content: records the *)
(* program wrote, and files that are not records                            *)

\* Bounds: the calls of session_update and of session_list made on one
\* directory
MaxUpdates == 1
MaxLists == 2

\* The file names (stems) tried, and the ids the functions are called with:
\* ids of files, a prefix of two of them, and an id no file starts with
DirStems == {"a", "ab", "ac"}
DirIds == {"a", "ab", "zz"}

\* The result handed to session_save and session_update
DirResult == Val(ContinueResults[Answer("a", PlainText)])

\* The texts a file of stem k can hold: the record session_save writes for
\* the id k when the clock reads 0 or 1, text that is not JSON, JSON that is
\* not an object, and an object that is not a record
DirTexts(k) ==
    {Dumps(JD(SaveData(JS(k), "review", DirResult, ".", JS(""), [i \in 1..4 |-> c]))) :
        c \in 0..1}
    \cup {"{oops", "[]", "{\"turns\": []}"}

\* The directories tried: each stem absent, or a file with one of its texts
DirFiles == [k \in DirStems |-> {File(text) : text \in DirTexts(k)}]
Dirs ==
    UNION {{fs \in [S -> UNION {DirFiles[k] : k \in S}] :
              \A k \in S : fs[k] \in DirFiles[k]} : S \in SUBSET DirStems}

\* The enumeration order of the directory is one of its orders; it stays as
\* it is while no file is written
DirLoc(order) == [order |-> order]

\* A mutant of DirList: every call enumerates the directory in an order of
\* its own
Mut_DirList ==
    /\ hist.q < MaxLists
    /\ call' = [op |-> "list", session_id |-> ""]
    /\ \E q \in GlobOrders(files) : res' = session_list(files, q)
    /\ hist' = [hist EXCEPT !.q = @ + 1]
    /\ UNCHANGED <<argv, proc, files, clock, out, concVars>>

\* session_list()
DirList ==
    /\ hist.q < MaxLists
    /\ call' = [op |-> "list", session_id |-> ""]
    /\ res' = session_list(files, loc[1].order)
    /\ hist' = [hist EXCEPT !.q = @ + 1]
    /\ UNCHANGED <<argv, proc, files, clock, out, concVars>>

\* session_get(sid)
DirGet ==
    /\ \E sid \in DirIds :
        /\ call' = [op |-> "get", session_id |-> sid]
        /\ res' = SessionGetIn(files, loc[1].order, sid)
    /\ UNCHANGED <<argv, proc, storeVars, concVars>>

\* session_update(sid, "more", result): when it writes, the directory's
\* enumeration order may change
DirUpdate ==
    /\ hist.n < MaxUpdates
    /\ \E sid \in DirIds :
        \E u \in {session_update(files, JS(sid), "more", DirResult, clock)} :
          /\ call' = [op |-> "update", session_id |-> sid]
          /\ res' = IF u.raised THEN Raise(u.exc) ELSE Ret(JNull)
          /\ files' = u.fs
          /\ IF u.raised THEN loc' = loc
             ELSE \E q \in GlobOrders(u.fs) : loc' = <<DirLoc(q)>>
    /\ hist' = [hist EXCEPT !.n = @ + 1]
    /\ UNCHANGED <<argv, proc, clock, out, pc>>

-----------------------------------------------------------------------------
(* The two text functions of the result interpreter, on texts put together  *)
(* from pieces                                                              *)

\* Bounds: the pieces of a text handed to _extract_worker_json, and the lines
\* of a text handed to _fallback_extract_questions
MaxPieces == 3
MaxLines == 2

\* A fenced block with this tag and body
Fenced(tag, body) == FENCE \o tag \o "\n" \o body \o "\n" \o FENCE

\* The pieces: prose, fenced blocks (tagged json, untagged, tagged python)
\* whose body is a payload, is not JSON, or has no status, and a bare payload
TextPieces ==
    {"Here is the answer.",
     Fenced("json", "{\"status\": \"completed\"}"),
     Fenced("", "{\"status\": \"needs_clarification\", \"questions\": [\"What port?\"]}"),
     Fenced("json", "{oops"),
     Fenced("", "{\"summary\": \"no status\"}"),
     Fenced("python", "print(1)"),
     "{\"status\": \"incomplete\"}"}

\* The lines: questions with and without ordinal and bullet markers, a
\* heading, lines of 10 characters, lines that are not questions
TextLines ==
    {"1. What is the deployment target?", "12) Is caching required?",
     "- Which module should I read?", "* 2. Should this count?",
     "# Is this a heading?", "  3. - Why both markers?  ", "1. Why so?",
     "Some notes.", "Too short?", "Just right??", ""}

\* The sequences of 1..n elements of S
SeqsUpTo(S, n) == UNION {[1..k -> S] : k \in 1..n}

\* The calls of the two functions that are tried
TextCalls ==
    {[op |-> "extract", text |-> Join("\n", ps)] : ps \in SeqsUpTo(TextPieces, MaxPieces)}
    \cup {[op |-> "questions", text |-> Join(sep, ls)] :
            sep \in {"\n", "\r\n"}, ls \in SeqsUpTo(TextLines, MaxLines)}

\* _extract_worker_json(text) returns
TextExtract ==
    /\ call.op = "extract" /\ res = NoRes
    /\ res' = _extract_worker_json(JS(call.text))
    /\ UNCHANGED <<cmdVars, proc, storeVars, concVars>>

\* _fallback_extract_questions(text) returns
TextQuestions ==
    /\ call.op = "questions" /\ res = NoRes
    /\ res' = Ret(_fallback_extract_questions(call.text))
    /\ UNCHANGED <<cmdVars, proc, storeVars, concVars>>

-----------------------------------------------------------------------------
(* Specifications                                                           *)

Init == CmdIdle /\ RunIdle /\ StoreIdle /\ ConcIdle

\* The commands of the CLI, one after another, on one session directory
Next == Exec \/ Continue \/ Sessions \/ Status \/ Delete \/ Tick
Spec == Init /\ [][Next]_vars

\* The command builder on its own, on each of the calls tried
InitCmd == call \in CmdCalls /\ argv = <<>> /\ RunIdle /\ StoreIdle /\ ConcIdle
NextCmd == BuildExec \/ BuildContinue
SpecCmd == InitCmd /\ [][NextCmd]_vars

\* The process runner and result interpreter on their own, on each of the
\* runs tried
InitRun ==
    /\ call \in RunCalls /\ argv = <<>>
    /\ proc \in FailedRuns \cup ParsedRuns /\ res = NoRes
    /\ StoreIdle /\ ConcIdle
NextRun == RunCall
SpecRun == InitRun /\ [][NextRun]_vars

\* Two continue commands at once on the stored session "a"
InitConc ==
    /\ CmdIdle /\ RunIdle
    /\ files = ConcStore /\ clock = 0 /\ out = NoOut /\ hist = [n |-> 0, q |-> 0]
    /\ pc = [i \in Procs |-> "get"]
    /\ loc = [i \in Procs |-> NoLoc]
NextConc == \/ \E i \in Procs : CGet(i) \/ CRun(i) \/ CRead(i) \/ CWrite(i)
            \/ ConcTick
SpecConc == InitConc /\ [][NextConc]_vars

\* One exec command beside the external process and the clock. The program
\* keeps running and time keeps passing: a step that can be taken is taken.
InitTimed ==
    /\ call \in TimedCalls /\ argv = <<>> /\ RunIdle
    /\ files \in TimedStores /\ clock = 0 /\ out = NoOut /\ hist = [n |-> 0, q |-> 0]
    /\ pc = <<"spawn">>
    /\ \E tool \in TimedTools : loc = <<TimedLoc(tool, files)>>
NextTimed == TSpawn \/ TPass \/ TChildExit \/ TCollect \/ TExpire \/ TReturn
SpecTimed == InitTimed /\ [][NextTimed]_vars /\ WF_vars(NextTimed)

\* The store's functions on a directory of any content
InitDir ==
    /\ CmdIdle /\ RunIdle
    /\ files \in Dirs /\ clock = MaxClock /\ out = NoOut /\ hist = [n |-> 0, q |-> 0]
    /\ pc = <<>>
    /\ \E q \in GlobOrders(files) : loc = <<DirLoc(q)>>
NextDir == DirList \/ DirGet \/ DirUpdate
SpecDir == InitDir /\ [][NextDir]_vars

\* The two text functions on their own, on each of the texts tried
InitText ==
    /\ call \in TextCalls /\ argv = <<>> /\ RunIdle /\ StoreIdle /\ ConcIdle
NextText == TextExtract \/ TextQuestions
SpecText == InitText /\ [][NextText]_vars

-----------------------------------------------------------------------------
(* Properties                                                               *)

\* The record and the turns that reading the file of stem k gives
Record(fs, k) == Val(LoadFile(fs[k])).dict
TurnsOf(fs, k) == Record(fs, k)["turns"].list

\* The sequence ys begins with the sequence xs
Extends(xs, ys) == Len(xs) <= Len(ys) /\ SubSeq(ys, 1, Len(xs)) = xs

\* The run p of the external tool ends in a process-level failure: not found,
\* timeout, non-zero exit with blank stdout, or stdout that is not valid JSON
ProcessFailure(p) ==
    \/ p.kind \in {"notfound", "timeout"}
    \/ p.kind = "exit" /\ p.returncode # 0 /\ Strip(p.stdout) = ""
    \/ p.kind = "exit" /\ ~Loads(p.stdout).ok

\* This step is a run of exec or continue
Invocation == hist'.n = hist.n + 1

\* C1: every argument vector built by _build_exec_cmd and by
\* _build_continue_cmd holds --disallowedTools immediately followed by the
\* comma-joined list of the four disallowed tools, whatever the task or
\* message, the model, the max-turns value and the allowed-tool override.
C1_DisallowedAlwaysPassed ==
    argv # <<>> =>
        \E i \in 1..(Len(argv) - 1) :
            /\ argv[i] = "--disallowedTools"
            /\ argv[i + 1] = "Edit,Write,Bash,NotebookEdit"

\* An exec command was built whose override names all four disallowed tools
C1_Witness ==
    /\ call.op = "exec"
    /\ call.allowed_tools = Some(<<"Edit", "Write", "Bash", "NotebookEdit">>)
    /\ argv # <<>>

\* C2: when an exec or continue invocation ends in a process-level failure,
\* the driver returns a non-zero status and the session files, and the
\* content of each, are what they were before the invocation.
C2_FailureLeavesStore ==
    [][(Invocation /\ ProcessFailure(proc')) => (out'.code # 0 /\ files' = files)]_vars

\* A continue on a stored session whose tool run timed out
C2_Witness ==
    /\ out.cmd = "continue" /\ out.a[1] = "a" /\ "a" \in DOMAIN files
    /\ proc.kind = "timeout" /\ out.code # 0

\* The three values of status
Statuses == {JS("completed"), JS("incomplete"), JS("needs_clarification")}

\* C3, as stated: every result _run returns for a non-failing invocation has
\* status equal to one of completed, incomplete, needs_clarification, and a
\* non-empty questions list only when status is needs_clarification.
C3_StatusAndQuestions ==
    (res # NoRes /\ ~res.raised /\ "error" \notin DOMAIN Val(res)) =>
        /\ Val(res)["status"] \in Statuses
        /\ Val(res)["questions"] # JL(<<>>)
              => Val(res)["status"] = JS("needs_clarification")

\* C4, as stated: over the runs of exec and continue, a record that stays in
\* place only grows in turns (each stored value extends the one before),
\* keeps its created_at, and has updated_at no earlier than created_at, also
\* when a later exec returns a session id that already has a record.
C4_RecordOnlyGrows ==
    [][\A k \in (DOMAIN files) \cap (DOMAIN files') :
          Invocation =>
            /\ Extends(TurnsOf(files, k), TurnsOf(files', k))
            /\ Record(files', k)["created_at"] = Record(files, k)["created_at"]
            /\ ~StrLess(Record(files', k)["updated_at"].str,
                        Record(files', k)["created_at"].str)]_vars

\* This step is a continue that updated the record of stem k
Updated(k) ==
    /\ Invocation /\ out'.cmd = "continue"
    /\ k \in DOMAIN files /\ k \in DOMAIN files' /\ files'[k] # files[k]

\* The two turns session_update appends for the message and the result, with
\* the timestamp ts
NewTurns(message, result, ts) == <<UserTurn(message, ts), AssistantTurn(result, ts)>>

\* C5, as stated: session_update on an existing record leaves the previous
\* turns unchanged, appends exactly two turns (a user turn with the message,
\* then an assistant turn carrying result.status), and sets updated_at to a
\* timestamp strictly later than the record's previous updated_at.
C5_UpdateAppendsTwoLater ==
    [][\A k \in DOMAIN files :
          Updated(k) =>
            /\ TurnsOf(files', k)
                 = TurnsOf(files, k)
                   \o NewTurns(out'.a[2], Val(res'), Record(files', k)["updated_at"])
            /\ StrLess(Record(files, k)["updated_at"].str,
                       Record(files', k)["updated_at"].str)]_vars

\* C5, what holds: the previous turns are unchanged, exactly the two turns are
\* appended (a user turn with the message, then an assistant turn carrying
\* result.status), and updated_at is set to the clock's reading at the update,
\* whatever the previous updated_at was.
C5_UpdateAppendsTwo ==
    [][\A k \in DOMAIN files :
          Updated(k) =>
            /\ TurnsOf(files', k)
                 = TurnsOf(files, k)
                   \o NewTurns(out'.a[2], Val(res'), Record(files', k)["updated_at"])
            /\ Record(files', k)["updated_at"] = _now_iso(clock)]_vars

\* A continue has updated the record of "a", which holds four turns
C5_Witness ==
    /\ out.cmd = "continue" /\ out.code = 0 /\ "a" \in DOMAIN files
    /\ Len(TurnsOf(files, "a")) = 4

\* The non-empty prefixes of the string k
Prefixes(k) == {SubSeq(k, 1, n) : n \in 1..Len(k)}

\* The records session_save can have built in cmd_exec for the result r, one
\* for each way the clock can have read
SavedRecords(r) ==
    {JD(SaveData(Get(Val(r), "session_id", JS("")), ExecArgs.task, Val(r),
                 OrElse(ExecArgs.cwd, "."),
                 Get(Val(r), "model", JS(OrElse(ExecArgs.model, ""))), ts)) :
        ts \in [1..4 -> 0..(MaxClock + 1)]}

\* C6: after session_save(id, ...) wrote a record, session_get(id) returns a
\* record equal to the one written, and so does session_get(p) for every
\* non-empty prefix p of id that no other stored session id starts with.
C6_SaveGetRoundTrip ==
    [][(Invocation /\ out'.cmd = "exec" /\ Saves(res')) =>
          \E written \in SavedRecords(res') :
            \A p \in Prefixes(Stem(Val(res')["session_id"])) :
              (\A x \in DOMAIN files' :
                   StartsWith(x, p) => x = Stem(Val(res')["session_id"]))
                => session_get(files', p) = {Ret(Some(written))}]_vars

\* An exec has stored session "ab", the only session: "a" and "ab" find it
C6_Witness ==
    /\ out.cmd = "exec" /\ out.code = 0 /\ Saves(res)
    /\ DOMAIN files = {"ab"}

\* This step is the command delete sid
Deletion(sid) == hist'.q = hist.q + 1 /\ out'.cmd = "delete" /\ out'.a = <<sid>>

\* C7, as stated: session_delete(id) for an id with no session file returns
\* false without raising and changes nothing; for an id with a session file it
\* returns true, and a session_get(id) made afterwards returns no match,
\* whatever other sessions are stored.
C7_DeleteThenNoMatch ==
    [][\A sid \in CliIds :
          Deletion(sid) =>
            IF sid \notin DOMAIN files
            THEN ~session_delete(files, sid).ret /\ out'.exc = "" /\ files' = files
            ELSE /\ session_delete(files, sid).ret
                 /\ session_get(files', sid) = {Ret(None)}]_vars

\* C7, amended: session_delete(id) for an id with no session file returns
\* false without raising and changes nothing; for an id with a session file it
\* returns true and removes that file alone, and a session_get(id) made
\* afterwards returns no match exactly when no remaining session id starts with
\* id: otherwise it returns the record of a session whose id starts with id.
C7_DeleteThenPrefixMatch ==
    [][\A sid \in CliIds :
          Deletion(sid) =>
            IF sid \notin DOMAIN files
            THEN ~session_delete(files, sid).ret /\ out'.exc = "" /\ files' = files
            ELSE /\ session_delete(files, sid).ret
                 /\ files' = Unlink(files, sid)
                 /\ session_get(files', sid)
                      = IF \A k \in DOMAIN files' : ~StartsWith(k, sid)
                        THEN {Ret(None)}
                        ELSE {Ret(Some(JD(Record(files', k)))) :
                                k \in {x \in DOMAIN files' : StartsWith(x, sid)}}]_vars

\* Session "a" has been deleted while session "ab" is stored
C7_Witness ==
    /\ out.cmd = "delete" /\ out.a = <<"a">> /\ out.code = 0
    /\ DOMAIN files = {"ab"}

\* Both invocations wrote the record, and both had read it before either
\* wrote: they read the same file
BothReadThenWrote ==
    /\ \A i \in Procs : pc[i] = "done" /\ loc[i].order > 0
    /\ loc[1].read = loc[2].read

\* The invocation that wrote last, and the other one
LastWriter == CHOOSE i \in Procs : loc[i].order = 2
FirstWriter == CHOOSE i \in Procs : loc[i].order = 1

\* C8: when two continue invocations on one stored session interleave so that
\* both read the record before either writes it, both complete successfully,
\* and the final record holds the turns read plus the two turns of the last
\* writer only: the other invocation's turns are lost.
C8_LostUpdate ==
    BothReadThenWrote =>
        /\ \A i \in Procs : loc[i].code = <<0>>
        /\ TurnsOf(files, "a")
             = Val(LoadFile(loc[1].read[1])).dict["turns"].list
               \o NewTurns(ConcArgs(LastWriter).message, loc[LastWriter].result[1],
                           Record(files, "a")["updated_at"])
        /\ \A n \in 1..Len(TurnsOf(files, "a")) :
             TurnsOf(files, "a")[n].dict["content"] # JS(ConcArgs(FirstWriter).message)

\* Both invocations read the record, then both wrote it
C8_Witness == BothReadThenWrote

\* The text is one JSON document: an object
JsonObject(text) == Loads(text).ok /\ T(Loads(text).v) = "dict"

\* C9, as stated: every run of every subcommand ends with one JSON success
\* document on standard output and exit code zero, or with one JSON error
\* document, with an error key, on standard error and a non-zero exit code.
C9_OneDocument ==
    out.cmd # "none" =>
        \/ /\ out.code = 0 /\ out.stderr = ""
           /\ JsonObject(out.stdout) /\ "error" \notin DOMAIN Loads(out.stdout).v.dict
        \/ /\ out.code # 0 /\ out.stdout = ""
           /\ JsonObject(out.stderr) /\ "error" \in DOMAIN Loads(out.stderr).v.dict

\* stdout of the run p has parsed as JSON: _run reached its interpretation
ParsedOutput(p) ==
    /\ p.kind = "exit"
    /\ ~(p.returncode # 0 /\ Strip(p.stdout) = "")
    /\ Loads(p.stdout).ok

\* C10, as stated: once the tool's stdout has parsed as JSON, the
\* interpretation in _run never raises: it returns a normalized result.
C10_InterpretNeverRaises ==
    (res # NoRes /\ ParsedOutput(proc)) =>
        /\ ~res.raised
        /\ {"status", "summary", "analysis", "questions", "files_analyzed"}
             \subseteq DOMAIN Val(res)

\* C11: when the external process never terminates on its own, an exec with
\* a finite timeout eventually returns the timeout failure, whose exit_code
\* (-2) differs from that of a missing executable (-1); by then the process
\* has been killed, the command has ended with a non-zero status, and the
\* session directory is what it was at the start.
C11_TimeoutEventually ==
    (pc = <<"spawn">> /\ loc[1].tool.kind = "hang")
        ~> /\ pc = <<"done">>
           /\ res = Ret([error     |-> JS("Task timed out after "
                                          \o IntToStr(call.timeout) \o " seconds"),
                         exit_code |-> JN(EXIT_TIMEOUT)])
           /\ EXIT_TIMEOUT # EXIT_NOT_FOUND
           /\ Val(res)["exit_code"] # JN(EXIT_NOT_FOUND)
           /\ loc[1].child = "killed"
           /\ out.code # 0
           /\ files = loc[1].before

\* An exec with a timeout of 2 on a process that never terminates has ended,
\* on a directory that held session "a" beforehand
C11_Witness ==
    /\ pc = <<"done">> /\ loc[1].tool.kind = "hang" /\ loc[1].child = "killed"
    /\ clock = call.timeout /\ call.timeout = 2
    /\ "a" \in DOMAIN files

\* The file f holds a well-formed record: a JSON object with session_id, task
\* and created_at
WellFormed(f) ==
    /\ ~LoadFile(f).raised
    /\ T(Val(LoadFile(f))) = "dict"
    /\ {"session_id", "task", "created_at"} \subseteq DOMAIN Val(LoadFile(f)).dict

\* The entries xs are sorted by updated_at in descending order
Descending(xs) ==
    \A i \in 1..(Len(xs) - 1) :
        ~StrLess(xs[i].dict["updated_at"].str, xs[i + 1].dict["updated_at"].str)

\* C12, as stated: for every content of the session directory, session_list
\* does not raise and returns exactly one entry per well-formed record,
\* skipping the other files, sorted by updated_at in descending order.
C12_ListSkipsBadFiles ==
    call.op = "list" =>
        /\ ~res.raised
        /\ Len(Val(res)) = Cardinality({k \in DOMAIN files : WellFormed(files[k])})
        /\ \A k \in DOMAIN files :
             WellFormed(files[k]) =>
                \E i \in 1..Len(Val(res)) :
                    Val(res)[i].dict["session_id"] = Record(files, k)["session_id"]
        /\ Descending(Val(res))

MatchesSchema(f) ==
    /\ ~LoadFile(f).raised
    /\ T(Val(LoadFile(f))) = "dict"
    /\ {"session_id", "task", "cwd", "model", "created_at", "updated_at", "turns",
        "last_status", "last_summary"} \subseteq DOMAIN Val(LoadFile(f)).dict
    /\ T(Val(LoadFile(f)).dict["turns"]) = "list"

\* This step is a call of session_update
UpdateCall == hist'.n = hist.n + 1 /\ call'.op = "update"

\* C15, as stated: when the session file does not exist, or exists but is
\* not valid JSON or does not match the Session Record schema, session_update
\* raises and leaves the session directory unchanged.
C15_UpdateRaisesOnCorrupt ==
    [][(/\ UpdateCall
        /\ \/ call'.session_id \notin DOMAIN files
           \/ ~MatchesSchema(files[call'.session_id]))
          => (res'.raised /\ files' = files)]_vars

\* C18: session_get(s) returns what the file named exactly s holds when
\* there is one, whatever other ids start with s and whatever the enumeration
\* order; otherwise what the first enumerated file whose id starts with s
\* holds; and no match only when no stored id starts with s.
C18_ExactThenFirstPrefix ==
    call.op = "get" =>
        /\ res \in session_get(files, call.session_id)
        /\ IF call.session_id \in DOMAIN files
           THEN res = LoadSession(files[call.session_id])
           ELSE IF \A k \in DOMAIN files : ~StartsWith(k, call.session_id)
           THEN res = Ret(None)
           ELSE \E i \in 1..Len(loc[1].order) :
                  /\ StartsWith(loc[1].order[i], call.session_id)
                  /\ \A j \in 1..(i - 1) :
                       ~StartsWith(loc[1].order[j], call.session_id)
                  /\ res = LoadSession(files[loc[1].order[i]])

\* session_get("a") returned the record of "a" although "ab" is enumerated
\* before it
C18_Witness ==
    /\ call.op = "get" /\ call.session_id = "a"
    /\ {"a", "ab"} \subseteq DOMAIN files
    /\ loc[1].order[1] = "ab"
    /\ res = Ret(Some(JD(SaveData(JS("a"), "review", DirResult, ".", JS(""),
                                  [i \in 1..4 |-> 0]))))

\* The body of the fenced block that opens at s[o] and closes at s[c]: the
\* text between the end of the opening line and the closing fence
BlockBody(s, o, c) ==
    Bind(FindFrom(s, o + Len(FENCE), "\n"), LAMBDA nl :
      IF nl = 0 \/ nl > c THEN "" ELSE SubSeq(s, nl + 1, c - 1))

RECURSIVE BlocksFrom(_, _)
\* The fenced blocks of s from position i on, in order of appearance: the
\* fences are paired as they come, an opening one with the next one
BlocksFrom(s, i) ==
    Bind(FindFrom(s, i, FENCE), LAMBDA o :
      IF o = 0 THEN <<>>
      ELSE Bind(FindFrom(s, o + Len(FENCE), FENCE), LAMBDA c :
             IF c = 0 THEN <<>>
             ELSE <<BlockBody(s, o, c)>> \o BlocksFrom(s, c + Len(FENCE))))

\* C16, as stated: _extract_worker_json returns the whole string's object if
\* the string parses as a JSON object with a status key; otherwise the object
\* of the first fenced block, in order of appearance, whose body parses as a
\* JSON object with a status key, earlier blocks that do not parse or lack
\* status being skipped and the prose around the fences ignored; and nothing
\* only if neither yields such an object.
C16_WholeThenFirstBlock ==
    (call.op = "extract" /\ res # NoRes) =>
        res = Ret(IF IsWorkerJson(call.text) THEN Some(Loads(call.text).v.dict)
                  ELSE FirstWorkerJson(BlocksFrom(call.text, 1)))

\* The line without the whitespace it begins with
LTrim(line) == From(line, SkipWS(line, 1))

\* The line without a leading ordinal marker: digits followed by "." or ")"
AfterOrdinal(line) ==
    IF \E n \in 1..(Len(line) - 1) :
          /\ \A i \in 1..n : IsDigit(Char(line, i))
          /\ Char(line, n + 1) \in {".", ")"}
    THEN LTrim(From(line, 2 + CHOOSE n \in 1..(Len(line) - 1) :
                            /\ \A i \in 1..n : IsDigit(Char(line, i))
                            /\ Char(line, n + 1) \in {".", ")"}))
    ELSE line

\* The line without a leading bullet marker: "-" or "*"
AfterBullet(line) ==
    IF Len(line) > 0 /\ Char(line, 1) \in {"-", "*"} THEN LTrim(From(line, 2)) ELSE line

\* The trimmed line without its markers
Unmarked(line) == AfterBullet(AfterOrdinal(Strip(line)))

\* The line is a candidate question
IsQuestionLine(line) ==
    /\ Len(Strip(line)) >= MIN_QUESTION_LEN
    /\ ~StartsWith(Strip(line), "#")
    /\ EndsWith(Unmarked(line), "?")
    /\ Len(Unmarked(line)) > MIN_QUESTION_LEN

RECURSIVE UnmarkedAll(_)
UnmarkedAll(lines) ==
    IF Len(lines) = 0 THEN <<>>
    ELSE <<JS(Unmarked(lines[1]))>> \o UnmarkedAll(Tail(lines))

\* C17: _fallback_extract_questions returns, in order of appearance, exactly
\* the lines that trimmed have at least 10 characters, do not begin with "#",
\* and without a leading ordinal marker and a leading bullet marker end with
\* "?" and are longer than 10 characters; each one is returned without its
\* markers.
C17_QuestionLines ==
    (call.op = "questions" /\ res # NoRes) =>
        res = Ret(UnmarkedAll(SelectSeq(SplitLines(call.text, 1), IsQuestionLine)))

\* Two question lines, one with an ordinal marker and one with both markers,
\* were returned without them
C17_Witness ==
    /\ call.op = "questions"
    /\ res = Ret(<<JS("What is the deployment target?"), JS("Why both markers?")>>)

\* What stdout of the run p parsed to, and its result field ("" when absent)
RawOf(p) == Loads(p.stdout).v
ResultOf(p) == Get(RawOf(p).dict, "result", JS(""))

\* The run p gave a result string from which no structured payload is
\* recovered
NoPayload(p) ==
    /\ ParsedOutput(p)
    /\ T(RawOf(p)) = "dict"
    /\ T(ResultOf(p)) = "str"
    /\ _extract_worker_json(ResultOf(p)) = Ret(None)

\* C14: when no structured payload is recovered from the result string, the
\* status is incomplete if the raw subtype is error_max_turns, whatever the
\* text holds; otherwise needs_clarification if a question is extracted and
\* completed if none is; summary is empty, analysis is the whole result
\* string, files_analyzed is empty and questions is the heuristic list.
C14_FallbackStatus ==
    (res # NoRes /\ NoPayload(proc)) =>
        /\ ~res.raised
        /\ Val(res)["status"]
             = JS(IF "subtype" \in DOMAIN RawOf(proc).dict
                     /\ RawOf(proc).dict["subtype"] = JS("error_max_turns")
                  THEN "incomplete"
                  ELSE IF _fallback_extract_questions(ResultOf(proc).str) # <<>>
                  THEN "needs_clarification"
                  ELSE "completed")
        /\ Val(res)["summary"] = JS("")
        /\ Val(res)["analysis"] = ResultOf(proc)
        /\ Val(res)["files_analyzed"] = JL(<<>>)
        /\ Val(res)["questions"] = JL(_fallback_extract_questions(ResultOf(proc).str))

\* A run that used up its turns and whose text holds question lines was
\* interpreted: incomplete, with the questions
C14_Witness ==
    /\ res # NoRes /\ NoPayload(proc)
    /\ ResultOf(proc) = JS(QuestionText)
    /\ Val(res)["status"] = JS("incomplete")
    /\ Len(Val(res)["questions"].list) = 2

\* The role of the n-th turn of a record: user, assistant, user, ...
RoleAt(n) == JS(IF n % 2 = 1 THEN "user" ELSE "assistant")

\* C19: in every state reached by exec, continue and delete commands from an
\* empty store, every stored record has an even number of turns, at least 2,
\* whose roles alternate user, assistant starting with user, and its
\* last_status is the status of its last assistant turn.
C19_TurnsInPairs ==
    \A k \in DOMAIN files :
        /\ Len(TurnsOf(files, k)) >= 2
        /\ Len(TurnsOf(files, k)) % 2 = 0
        /\ \A n \in 1..Len(TurnsOf(files, k)) :
             TurnsOf(files, k)[n].dict["role"] = RoleAt(n)
        /\ Record(files, k)["last_status"]
             = TurnsOf(files, k)[Len(TurnsOf(files, k))].dict["status"]

\* A stored record was continued with an answer that asks a question: four
\* turns, the last one needing clarification
C19_Witness ==
    /\ \E k \in DOMAIN files :
         /\ Len(TurnsOf(files, k)) = 4
         /\ Record(files, k)["last_status"] = JS("needs_clarification")
         /\ TurnsOf(files, k)[2].dict["status"] = JS("completed")

\* C20: in every record written through the exec and continue drivers, the
\* content of every assistant turn is the empty string, whatever text the
\* external tool returned.
C20_AssistantContentEmpty ==
    \A k \in DOMAIN files :
        \A n \in 1..Len(TurnsOf(files, k)) :
            TurnsOf(files, k)[n].dict["role"] = JS("assistant")
                => TurnsOf(files, k)[n].dict["content"] = JS("")

\* A record was stored for a run in which the tool returned a text
C20_Witness ==
    /\ out.cmd = "exec" /\ out.code = 0 /\ Saves(res)
    /\ Val(res)["analysis"] = JS(PlainText)
    /\ Len(TurnsOf(files, Stem(Val(res)["session_id"]))) = 2

====
